---- MODULE Spec2Model ----
(***************************************************************************)
(* Verification model of the Telegram talking agent:                       *)
(*   - the message relay engine of run_chat_mode (listener, queue,         *)
(*     processor with its decision loop), src/src/main.py;                 *)
(*   - the message store of Repository, src/src/database/repository.py;    *)
(*   - the token lifecycle and chat transport of QwenClient,               *)
(*     src/src/ai/qwen_oauth.py;                                           *)
(*   - the poll loop of the device-code flow of QwenClient, in seconds;    *)
(*   - the oauth_tokens table and the entry of GoogleClient,               *)
(*     src/src/ai/google_oauth.py;                                         *)
(*   - one call of ResponseGenerator.generate_multiple;                    *)
(*   - the completions URL computed by QwenClient._get_api_url.            *)
(* Texts are sequences of one-character strings, so that strip() and the   *)
(* quote removal of the response generator are computed, not assumed.      *)
(***************************************************************************)
EXTENDS Integers, Sequences, FiniteSets, TLC

\* ------------------------------------------------------------------ bounds
\* Number of incoming messages the platform delivers in one session.
MaxEvents == 2
\* Non-terminal actions (regenerate, empty edit) allowed in one decision cycle.
MaxRetry == 1

\* Times the wall clock of the token model moves on.
MaxTicks == 1
\* Token responses the token endpoint answers with in one run.
MaxTokens == 1
\* Token-exchange requests of one device-code flow.
MaxPolls == 3

\* ------------------------------------------------------- program constants
\* main.py:92  a contact needs at least five outgoing messages in the store
MinOutgoing == 5
\* main.py:206  get_recent_context(limit=20)
ContextLimit == 20
\* response_generator.py:27  context_messages[-15:]
PromptLimit == 15
\* main.py:231  telegram_msg_id of every persisted reply
ReplyMsgId == 0
\* qwen_oauth.py:234  timedelta(minutes=1) in _ensure_valid_token
EnsureMargin == 1
\* qwen_oauth.py:65  timedelta(minutes=5) in _load_or_refresh_token
LoadMargin == 5
\* qwen_oauth.py:219  token_data.get("expires_in", 3600), in minutes
DefaultExpiresIn == 60

VARIABLES
    \* --- relay engine (main.py run_chat_mode)
    auto_reply,        \* run_chat_mode parameter
    wait_time,         \* run_chat_mode parameter
    store,             \* rows of the messages table, in insertion order
    message_queue,     \* asyncio.Queue of Message
    lpc,               \* listener position: "idle" | "put"
    lmsg,              \* the Message on_message holds between save and put
    ppc,               \* processor position
    msg,               \* the Message the processor dequeued (None: NoMsg)
    context,           \* context fetched for msg
    current_response,  \* the candidate text
    nretry,            \* non-terminal actions taken in this cycle
    nevents,           \* incoming messages delivered so far
    clock,             \* UTC wall clock of the session (the dates of events)
    utc_offset,        \* what the local wall clock is ahead of UTC
    \* --- history of the run (what was observed; never read by the program)
    enqueued,          \* ids put on message_queue, in order
    dequeued,          \* ids the processor got from message_queue, in order
    outcome,           \* dequeued id -> "open" | "sent" | "skipped": state of its cycle
    transmitted,       \* send_message calls: [re |-> id answered, text, via |-> action]
    nfail,             \* generation or send failures raised in the processor
    generated,         \* generation requests of the current cycle, in order
    \* --- token lifecycle and chat transport (qwen_oauth.py QwenClient)
    now,               \* datetime.now(), in minutes
    mem,               \* self._token (NoToken: None)
    db,                \* the row of oauth_tokens (NoToken: no row)
    entered,           \* "no" | "yes": __aenter__ has returned
    task,              \* caller -> where its call of the client is suspended
    issued,            \* token responses the endpoint has answered with
    rejected,          \* refresh tokens the endpoint answered 400 to
    called,            \* the callers that have made their chat() call
    ev,                \* caller -> what its current token check has done
    chatlog,           \* caller -> last answer to its chat request, error raised
    \* --- device-code flow (qwen_oauth.py _device_flow_auth), in seconds
    dnow,              \* datetime.now(), in seconds
    flow,              \* position, interval and deadline of the flow
    polls,             \* token-exchange requests: [at, wait, answer], in order
    dclient,           \* self._token and self._resource_url of the client
    dstore,            \* the row of oauth_tokens (NoToken: no row)
    sent,              \* chat requests: [token |-> bearer, host |-> host]
    dghost,            \* what was observed of the flow; never read by the program
    \* --- credential store (repository.py, models.py) and its two clients
    table,             \* the oauth_tokens table: its columns and its rows
    gclient,           \* GoogleClient: position, self._creds, the error raised
    sclock,            \* datetime.now()
    slog,              \* the last store operation, as observed; never read
    \* --- one call of ResponseGenerator.generate_multiple
    gm,                \* its arguments, position, options and chat requests
    \* --- the completions URL of QwenClient (_get_api_url)
    api                \* self._resource_url and the URLs computed from it

relayVars == <<auto_reply, wait_time, store, message_queue, lpc, lmsg, ppc, msg,
               context, current_response, nretry, nevents, clock, utc_offset,
               enqueued, dequeued, outcome, transmitted, nfail, generated>>

tokenVars == <<now, mem, db, entered, task, issued, rejected, called, ev,
               chatlog>>

deviceVars == <<dnow, flow, polls, dclient, dstore, sent, dghost>>

storeVars == <<table, gclient, sclock, slog>>

altVars == <<gm>>

urlVars == <<api>>

vars == <<relayVars, tokenVars, deviceVars, storeVars, altVars, urlVars>>

\* -------------------------------------------------------------------- text
Blank == {" ", "\n", "\t"}

RECURSIVE LStrip(_)
LStrip(s) == IF s # <<>> /\ Head(s) \in Blank THEN LStrip(Tail(s)) ELSE s

RECURSIVE RStrip(_)
RStrip(s) == IF s # <<>> /\ s[Len(s)] \in Blank THEN RStrip(SubSeq(s, 1, Len(s) - 1)) ELSE s

\* str.strip()
Strip(s) == RStrip(LStrip(s))

\* s[1:-1]
Inner(s) == SubSeq(s, 2, Len(s) - 1)

\* s.startswith(q) and s.endswith(q) for a one-character q
Quoted(s, q) == s # <<>> /\ Head(s) = q /\ s[Len(s)] = q

\* response_generator.py generate: strip, then drop one pair of double quotes,
\* then one pair of single quotes.
CleanResponse(raw) ==
    LET a == Strip(raw)
        b == IF Quoted(a, "\"") THEN Inner(a) ELSE a
    IN  IF Quoted(b, "'") THEN Inner(b) ELSE b

\* Replies the model's chat endpoint can return for a generation request.
RawResponses == { <<"o", "k">>, <<" ", "\"", "n", "o", "\"">> }

\* What the user can type in edit_response.
EditInputs == { <<>>, <<" ">>, <<"h", "i", " ">> }

\* Text of an inbound message.
InboundText == <<"y", "o">>

\* --------------------------------------------------------------- messages
\* dataclass Message (contact_id is the one selected contact)
Message(id, text, out, ts) ==
    [telegram_msg_id |-> id, text |-> text, is_outgoing |-> out, timestamp |-> ts]

NoMsg == Message(-1, <<>>, FALSE, 0)

\* Rows fetch_history left in the store: telegram ids 1..2*MinOutgoing,
\* alternately incoming and outgoing, oldest first.
HistoryLen == 2 * MinOutgoing

History == [i \in 1..HistoryLen |-> Message(i, InboundText, i % 2 = 0, i)]

\* Time zones of the machine, as what local time is ahead of UTC: two hours
\* behind, and UTC itself.
UtcOffsets == {-2, 0}

\* datetime.now() (main.py 235, 251, 268): the naive local time, where the
\* dates of events are UTC with tzinfo removed (main.py 167).
LocalNow(at, offset) == at + offset

\* A reply persisted by an earlier session (telegram_msg_id 0).
EarlierReply == Message(ReplyMsgId, <<"o", "k">>, TRUE, 0)

\* INSERT OR IGNORE ... UNIQUE(telegram_msg_id, contact_id), one row
InsertOrIgnore(rows, m) ==
    IF \E i \in 1..Len(rows) : rows[i].telegram_msg_id = m.telegram_msg_id
    THEN rows
    ELSE Append(rows, m)

\* Repository.save_messages(messages)
RECURSIVE save_messages(_, _)
save_messages(rows, messages) ==
    IF messages = <<>> THEN rows
    ELSE save_messages(InsertOrIgnore(rows, Head(messages)), Tail(messages))

\* ORDER BY timestamp ASC: the place of row i among the rows, rows of the same
\* timestamp in insertion order.
Rank(rows, i) ==
    Cardinality({j \in 1..Len(rows) :
                    \/ rows[j].timestamp < rows[i].timestamp
                    \/ (rows[j].timestamp = rows[i].timestamp /\ j <= i)})

OrderByTs(rows) ==
    [k \in 1..Len(rows) |-> rows[CHOOSE i \in 1..Len(rows) : Rank(rows, i) = k]]

\* Repository.get_messages(contact_id)
get_messages(rows) == OrderByTs(rows)

\* s[-n:]
LastN(s, n) == IF Len(s) > n THEN SubSeq(s, Len(s) - n + 1, Len(s)) ELSE s

\* MessageFetcher.get_recent_context(contact_id, limit)
get_recent_context(rows, limit) == LastN(get_messages(rows), limit)

\* next(m for m in reversed(messages) if m.is_outgoing == out), None
LastWhere(rows, out) ==
    LET idx == {i \in 1..Len(rows) : rows[i].is_outgoing = out}
    IN  IF idx = {} THEN NoMsg
        ELSE rows[CHOOSE i \in idx : \A j \in idx : j <= i]

\* -------------------------------------------------------------- relay Init
StartActions == {"reply_incoming", "reply_outgoing", "wait"}

\* main.py 140-156: the queue after the start action
StartQueue(rows, start_action) ==
    LET messages == get_messages(rows)
        last_incoming == LastWhere(messages, FALSE)
        last_outgoing == LastWhere(messages, TRUE)
    IN  IF start_action = "reply_incoming" /\ last_incoming # NoMsg THEN <<last_incoming>>
        ELSE IF start_action = "reply_outgoing" /\ last_outgoing # NoMsg THEN <<last_outgoing>>
        ELSE <<>>

Ids(q) == [i \in 1..Len(q) |-> q[i].telegram_msg_id]

RelayInit ==
    /\ auto_reply \in BOOLEAN
    /\ wait_time \in {0, 1}
    /\ (~auto_reply => wait_time = 0)
    /\ \E earlier \in BOOLEAN :
          store = IF earlier THEN <<EarlierReply>> \o History ELSE History
    /\ \E start_action \in StartActions :
          message_queue = StartQueue(store, start_action)
    /\ lpc = "idle"
    /\ lmsg = NoMsg
    /\ ppc = "get"
    /\ msg = NoMsg
    /\ context = <<>>
    /\ current_response = <<>>
    /\ nretry = 0
    /\ nevents = 0
    /\ clock = HistoryLen
    /\ utc_offset \in UtcOffsets
    /\ enqueued = Ids(message_queue)
    /\ dequeued = <<>>
    /\ outcome = <<>>
    /\ transmitted = <<>>
    /\ nfail = 0
    /\ generated = <<>>

\* ------------------------------------------------------------ the listener
Running == ppc \notin {"crashed", "stopped"}

\* A processor that makes its chat request with a call that does not yield.
Blocking_Generate == {"generate", "regenerate"}

\* Positions at which process_messages holds the event loop.  Each of its
\* calls that waits is awaited (main.py 178, 204, 206, 208, 226, 230, 240-291:
\* queue get, sleep, context, generate, send_message, save_messages, the menu),
\* and so are the calls of QwenClient (qwen_oauth.py 88, 135, 184, 228, 270).
Blocking == {}

\* A handler that would take every event.
Dropped_None(out) == FALSE

\* main.py 159-160: `if event.out: return`
Dropped(out) == out

\* on_message(event), main.py 158-170: an outgoing event is dropped; an incoming
\* one is built into a Message and saved.  The handler then waits for the save.
OnMessage(out) ==
    /\ Running
    /\ ppc \notin Blocking
    /\ lpc = "idle"
    /\ IF Dropped(out)
       THEN UNCHANGED <<store, lmsg, lpc, nevents, clock>>
       ELSE LET m == Message(HistoryLen + nevents + 1, InboundText, FALSE, clock + 1)
            IN  /\ nevents < MaxEvents
                /\ nevents' = IF out THEN nevents ELSE nevents + 1
                /\ clock' = clock + 1
                /\ store' = save_messages(store, <<m>>)
                /\ lmsg' = m
                /\ lpc' = "put"
    /\ UNCHANGED <<auto_reply, wait_time, message_queue, ppc, msg, context,
                   current_response, nretry, enqueued, dequeued, outcome,
                   transmitted, nfail>>
    /\ UNCHANGED generated
    /\ UNCHANGED utc_offset
    /\ UNCHANGED <<tokenVars, deviceVars, storeVars, altVars, urlVars>>

\* on_message, main.py 171: message_queue.put(msg)
OnMessagePut ==
    /\ Running
    /\ ppc \notin Blocking
    /\ lpc = "put"
    /\ message_queue' = Append(message_queue, lmsg)
    /\ enqueued' = Append(enqueued, lmsg.telegram_msg_id)
    /\ lmsg' = NoMsg
    /\ lpc' = "idle"
    /\ UNCHANGED <<auto_reply, wait_time, store, ppc, msg, context,
                   current_response, nretry, nevents, clock, dequeued, outcome,
                   transmitted, nfail>>
    /\ UNCHANGED generated
    /\ UNCHANGED utc_offset
    /\ UNCHANGED <<tokenVars, deviceVars, storeVars, altVars, urlVars>>

\* ----------------------------------------------------------- the processor
\* process_messages, main.py 176-192: message_queue.get() returned a message
\* (a timeout leaves every variable as it is and tries again).
Dequeue ==
    /\ ppc = "get"
    /\ message_queue # <<>>
    /\ msg' = Head(message_queue)
    /\ message_queue' = Tail(message_queue)
    /\ dequeued' = Append(dequeued, Head(message_queue).telegram_msg_id)
    /\ outcome' = (Head(message_queue).telegram_msg_id :> "open") @@ outcome
    /\ current_response' = <<>>
    /\ nretry' = 0
    /\ generated' = <<>>
    /\ ppc' = IF auto_reply /\ wait_time > 0 THEN "sleep" ELSE "context"
    /\ UNCHANGED <<auto_reply, wait_time, store, lpc, lmsg, context, nevents,
                   clock, enqueued, transmitted, nfail>>
    /\ UNCHANGED utc_offset
    /\ UNCHANGED <<tokenVars, deviceVars, storeVars, altVars, urlVars>>

\* main.py 195-204: asyncio.sleep(wait_time) is over
AutoReplyDelay ==
    /\ ppc = "sleep"
    /\ ppc' = "context"
    /\ UNCHANGED <<auto_reply, wait_time, store, message_queue, lpc, lmsg, msg,
                   context, current_response, nretry, nevents, clock, enqueued,
                   dequeued, outcome, transmitted, nfail>>
    /\ UNCHANGED generated
    /\ UNCHANGED utc_offset
    /\ UNCHANGED <<tokenVars, deviceVars, storeVars, altVars, urlVars>>

\* main.py 206: context = await fetcher.get_recent_context(contact, limit=20)
FetchContext ==
    /\ ppc = "context"
    /\ context' = get_recent_context(store, ContextLimit)
    /\ ppc' = "generate"
    /\ UNCHANGED <<auto_reply, wait_time, store, message_queue, lpc, lmsg, msg,
                   current_response, nretry, nevents, clock, enqueued, dequeued,
                   outcome, transmitted, nfail>>
    /\ UNCHANGED generated
    /\ UNCHANGED utc_offset
    /\ UNCHANGED <<tokenVars, deviceVars, storeVars, altVars, urlVars>>

\* response_generator.py 44: chat(messages, temperature=0.8), in hundredths
GenerateTemperature == 80

Role(m) == IF m.is_outgoing THEN "assistant" ELSE "user"

Turn(role, content) == [role |-> role, content |-> content]

\* response_generator.py 25-31 and 64-68: the turns of the last 15 context
\* messages, then the incoming text as a user turn.
Conversation(context_messages, incoming_message) ==
    LET recent == LastN(context_messages, PromptLimit)
    IN  [i \in 1..Len(recent) |-> Turn(Role(recent[i]), recent[i].text)]
            \o <<Turn("user", incoming_message)>>

\* The chat request of one generation.
Request(context_messages, incoming_message, temperature) ==
    [conversation |-> Conversation(context_messages, incoming_message),
     temperature |-> temperature]

\* ResponseGenerator.generate: the request it makes of the chat transport.
generate(context_messages, incoming_message) ==
    Request(context_messages, incoming_message, GenerateTemperature)

\* A regenerate that queries the context again.
RegenerateContext_Fresh(rows, fetched) == get_recent_context(rows, ContextLimit)

\* main.py 273-274: regenerate passes `context`, the value fetched at line 206
\* for the first generation of the cycle.
RegenerateContext(rows, fetched) == fetched

\* The context_messages argument of the generate call at this position.
ContextArg ==
    IF ppc = "regenerate" THEN RegenerateContext(store, context) ELSE context

\* main.py 208-212 and 273-277: generator.generate(...) returned
Generate(raw) ==
    /\ ppc \in {"generate", "regenerate"}
    /\ generated' = Append(generated, generate(ContextArg, msg.text))
    /\ current_response' = CleanResponse(raw)
    /\ ppc' = IF auto_reply THEN "auto_send" ELSE "menu"
    /\ UNCHANGED <<auto_reply, wait_time, store, message_queue, lpc, lmsg, msg,
                   context, nretry, nevents, clock, enqueued, dequeued, outcome,
                   transmitted, nfail>>
    /\ UNCHANGED utc_offset
    /\ UNCHANGED <<tokenVars, deviceVars, storeVars, altVars, urlVars>>

\* What an exception raised inside process_messages does: nothing in
\* process_messages catches it (main.py 175-295), asyncio.gather re-raises it and
\* async_main reports it and returns (main.py 117-120).
Raise == "crashed"

\* generator.generate(...) raised (the chat request failed)
GenerateFail ==
    /\ ppc \in {"generate", "regenerate"}
    /\ generated' = Append(generated, generate(ContextArg, msg.text))
    /\ ppc' = Raise
    /\ nfail' = nfail + 1
    /\ UNCHANGED <<auto_reply, wait_time, store, message_queue, lpc, lmsg, msg,
                   context, current_response, nretry, nevents, clock, enqueued,
                   dequeued, outcome, transmitted>>
    /\ UNCHANGED utc_offset
    /\ UNCHANGED <<tokenVars, deviceVars, storeVars, altVars, urlVars>>

\* MenuUI.show_generated_response(text, options, show_panel), menu.py 147-156:
\* the choices the menu offers; "alternatives" only with a non-empty options list.
NoOptions == <<>>

MenuChoices(options) ==
    {"send", "edit", "regenerate"}
        \cup (IF options # NoOptions THEN {"alternatives"} ELSE {})
        \cup {"skip"}

\* main.py 240: show_generated_response(current_response, show_panel=False)
Offered == MenuChoices(NoOptions)

\* tg_client.send_message(contact, text) went through
Transmit(text, via) ==
    transmitted' = Append(transmitted,
                          [re |-> msg.telegram_msg_id, text |-> text, via |-> via])

\* A loop that would show the menu again after a send.
AfterSend_Menu == "menu"

\* main.py 227-230, 243-246, 260-263: after send_message comes the save of the
\* reply, and after it `continue` or `break`.
AfterSend == "save"

\* main.py 226-227: auto-reply sends the candidate without asking
AutoSend(ok) ==
    /\ ppc = "auto_send"
    /\ IF ok
       THEN Transmit(current_response, "auto") /\ ppc' = AfterSend /\ UNCHANGED nfail
       ELSE ppc' = Raise /\ nfail' = nfail + 1 /\ UNCHANGED transmitted
    /\ UNCHANGED <<auto_reply, wait_time, store, message_queue, lpc, lmsg, msg,
                   context, current_response, nretry, nevents, clock, enqueued,
                   dequeued, outcome>>
    /\ UNCHANGED generated
    /\ UNCHANGED utc_offset
    /\ UNCHANGED <<tokenVars, deviceVars, storeVars, altVars, urlVars>>

\* main.py 242-244: action "send"
ActSend(ok) ==
    /\ ppc = "menu"
    /\ "send" \in Offered
    /\ IF ok
       THEN Transmit(current_response, "send") /\ ppc' = AfterSend /\ UNCHANGED nfail
       ELSE ppc' = Raise /\ nfail' = nfail + 1 /\ UNCHANGED transmitted
    /\ UNCHANGED <<auto_reply, wait_time, store, message_queue, lpc, lmsg, msg,
                   context, current_response, nretry, nevents, clock, enqueued,
                   dequeued, outcome>>
    /\ UNCHANGED generated
    /\ UNCHANGED utc_offset
    /\ UNCHANGED <<tokenVars, deviceVars, storeVars, altVars, urlVars>>

\* A decision loop that an empty edit would leave for the next dequeue.
AfterEmptyEdit_Abandon == "get"

\* Where the decision loop goes after an edit that is empty once stripped:
\* main.py 257 has no else branch, the while loop shows the menu again.
AfterEmptyEdit == "menu"

\* main.py 255-261: action "edit" and the text the user typed
ActEdit(edited, ok) ==
    /\ ppc = "menu"
    /\ "edit" \in Offered
    /\ IF Strip(edited) # <<>>
       THEN /\ current_response' = edited
            /\ IF ok
               THEN Transmit(edited, "edit") /\ ppc' = AfterSend /\ UNCHANGED nfail
               ELSE ppc' = Raise /\ nfail' = nfail + 1 /\ UNCHANGED transmitted
            /\ UNCHANGED nretry
       ELSE /\ nretry < MaxRetry
            /\ nretry' = nretry + 1
            /\ ppc' = AfterEmptyEdit
            /\ UNCHANGED <<current_response, transmitted, nfail>>
    /\ UNCHANGED <<auto_reply, wait_time, store, message_queue, lpc, lmsg, msg,
                   context, nevents, clock, enqueued, dequeued, outcome>>
    /\ UNCHANGED generated
    /\ UNCHANGED utc_offset
    /\ UNCHANGED <<tokenVars, deviceVars, storeVars, altVars, urlVars>>

\* main.py 272-273: action "regenerate" calls generator.generate again
ActRegenerate ==
    /\ ppc = "menu"
    /\ "regenerate" \in Offered
    /\ nretry < MaxRetry
    /\ nretry' = nretry + 1
    /\ ppc' = "regenerate"
    /\ UNCHANGED <<auto_reply, wait_time, store, message_queue, lpc, lmsg, msg,
                   context, current_response, nevents, clock, enqueued, dequeued,
                   outcome, transmitted, nfail>>
    /\ UNCHANGED generated
    /\ UNCHANGED utc_offset
    /\ UNCHANGED <<tokenVars, deviceVars, storeVars, altVars, urlVars>>

\* A skip that shows the menu again.
AfterSkip_Stay == "menu"

\* main.py 295: break leaves the decision loop for the next queue get.
AfterSkip == "get"

\* main.py 293-295: action "skip"
ActSkip ==
    /\ ppc = "menu"
    /\ "skip" \in Offered
    /\ outcome' = [outcome EXCEPT ![msg.telegram_msg_id] = "skipped"]
    /\ ppc' = AfterSkip
    /\ UNCHANGED <<auto_reply, wait_time, store, message_queue, lpc, lmsg, msg,
                   context, current_response, nretry, nevents, clock, enqueued,
                   dequeued, transmitted, nfail>>
    /\ UNCHANGED generated
    /\ UNCHANGED utc_offset
    /\ UNCHANGED <<tokenVars, deviceVars, storeVars, altVars, urlVars>>

\* The Message persisted for a reply, main.py 230-236, 246-252, 263-269
ReplyRow(text, at) == Message(ReplyMsgId, text, TRUE, at)

\* main.py 230-237, 246-253, 263-270: repo.save_messages([reply]) after the
\* send, then continue / break: the cycle is over.
PersistReply ==
    /\ ppc = "save"
    /\ clock' = clock + 1
    /\ store' = save_messages(store, <<ReplyRow(current_response,
                                                 LocalNow(clock + 1, utc_offset))>>)
    /\ outcome' = [outcome EXCEPT ![msg.telegram_msg_id] = "sent"]
    /\ ppc' = "get"
    /\ UNCHANGED <<auto_reply, wait_time, message_queue, lpc, lmsg, msg, context,
                   current_response, nretry, nevents, enqueued, dequeued,
                   transmitted, nfail>>
    /\ UNCHANGED generated
    /\ UNCHANGED utc_offset
    /\ UNCHANGED <<tokenVars, deviceVars, storeVars, altVars, urlVars>>

\* main.py 297-303: Ctrl+C while process_messages is suspended at an await
Stop ==
    /\ Running
    /\ ppc' = "stopped"
    /\ UNCHANGED <<auto_reply, wait_time, store, message_queue, lpc, lmsg, msg,
                   context, current_response, nretry, nevents, clock, enqueued,
                   dequeued, outcome, transmitted, nfail>>
    /\ UNCHANGED generated
    /\ UNCHANGED utc_offset
    /\ UNCHANGED <<tokenVars, deviceVars, storeVars, altVars, urlVars>>

\* ===================================== ResponseGenerator.generate_multiple
\* Candidates asked of one call.
MaxCount == 3

\* response_generator.py 65: temp = 0.7 + (i * 0.15), in hundredths
BaseTemperature == 70

TemperatureStep == 15

\* A schedule that asks every candidate at the base temperature.
Temperature_Flat(i) == BaseTemperature

\* The temperature of request i, i counted from 0 as range(count) does.
Temperature(i) == BaseTemperature + i * TemperatureStep

\* s.strip(chars) for a set of one-character strings
RECURSIVE LStripChars(_, _)
LStripChars(s, chars) ==
    IF s # <<>> /\ Head(s) \in chars THEN LStripChars(Tail(s), chars) ELSE s

RECURSIVE RStripChars(_, _)
RStripChars(s, chars) ==
    IF s # <<>> /\ s[Len(s)] \in chars
    THEN RStripChars(SubSeq(s, 1, Len(s) - 1), chars)
    ELSE s

\* response_generator.py 85: response.strip().strip('"\'')
CleanOption(raw) == RStripChars(LStripChars(Strip(raw), {"\"", "'"}), {"\"", "'"})

\* Contexts the caller can pass: none, one message, 15 and 20 messages.
LongHistory == [i \in 1..ContextLimit |-> Message(i, InboundText, i % 2 = 0, i)]

AltContexts == {SubSeq(LongHistory, 1, n) : n \in {0, 1, PromptLimit, ContextLimit}}

\* One call: where it is, its arguments, the options collected and the chat
\* requests made so far.
GM(pc, count, context_messages, options, requests) ==
    [pc |-> pc, count |-> count, context |-> context_messages,
     options |-> options, requests |-> requests]

AltInit == gm = GM("idle", 0, <<>>, <<>>, <<>>)

\* response_generator.py 55-84: generate_multiple is called; the loop builds
\* the messages of its first pass and posts the chat request (with count 0
\* the loop body never runs).
GenerateMultiple(count, context_messages) ==
    /\ gm.pc = "idle"
    /\ gm' = IF count = 0
             THEN GM("done", count, context_messages, <<>>, <<>>)
             ELSE GM("chat_wait", count, context_messages, <<>>,
                     <<Request(context_messages, InboundText, Temperature(0))>>)
    /\ UNCHANGED <<relayVars, tokenVars, deviceVars, storeVars, urlVars>>

\* response_generator.py 84-88: the chat request of pass i returned; the
\* option is appended and the next pass posts its request, or the options are
\* returned.
OptionAnswer(raw) ==
    /\ gm.pc = "chat_wait"
    /\ LET options == Append(gm.options, CleanOption(raw))
           i == Len(options)
       IN  gm' = IF i < gm.count
                 THEN GM("chat_wait", gm.count, gm.context, options,
                         Append(gm.requests,
                                Request(gm.context, InboundText, Temperature(i))))
                 ELSE GM("done", gm.count, gm.context, options, gm.requests)
    /\ UNCHANGED <<relayVars, tokenVars, deviceVars, storeVars, urlVars>>

\* The chat request raised: nothing in generate_multiple catches it.
OptionFail ==
    /\ gm.pc = "chat_wait"
    /\ gm' = GM("raised", gm.count, gm.context, <<>>, gm.requests)
    /\ UNCHANGED <<relayVars, tokenVars, deviceVars, storeVars, urlVars>>

AltNext ==
    \/ \E count \in 0..MaxCount, context_messages \in AltContexts :
          GenerateMultiple(count, context_messages)
    \/ \E raw \in RawResponses : OptionAnswer(raw)
    \/ OptionFail

\* ============================================ QwenClient._get_api_url
\* Times the normalisation is applied to one resource URL.
MaxApply == 2

\* s.startswith(p), s.endswith(p), p in s, s.count(p)
StartsWith(s, p) == Len(s) >= Len(p) /\ SubSeq(s, 1, Len(p)) = p

EndsWith(s, p) == Len(s) >= Len(p) /\ SubSeq(s, Len(s) - Len(p) + 1, Len(s)) = p

Found(s, p) == {i \in 1..(Len(s) - Len(p) + 1) : SubSeq(s, i, i + Len(p) - 1) = p}

Contains(s, p) == Found(s, p) # {}

Count(s, p) == Cardinality(Found(s, p))

Http == <<"h", "t", "t", "p">>

HttpScheme == Http \o <<":", "/", "/">>

HttpsScheme == Http \o <<"s", ":", "/", "/">>

Slash == <<"/">>

V1 == <<"/", "v", "1">>

ChatCompletions ==
    <<"/", "c", "h", "a", "t", "/", "c", "o", "m", "p", "l", "e", "t", "i", "o", "n", "s">>

QwenHost == <<"q", "w", "e", "n", ".", "a", "i">>

\* qwen_oauth.py 27: "https://chat.qwen.ai/api/v1/chat/completions"
DEFAULT_API_URL ==
    HttpsScheme \o <<"c", "h", "a", "t", ".">> \o QwenHost \o <<"/", "a", "p", "i">>
        \o V1 \o ChatCompletions

\* _get_api_url, qwen_oauth.py 239-253.  None and "" are both the empty
\* sequence: `self._resource_url or DEFAULT_API_URL` treats them alike.
get_api_url(resource_url) ==
    LET base_url == IF resource_url # <<>> THEN resource_url ELSE DEFAULT_API_URL
        schemed  == IF ~StartsWith(base_url, Http)
                    THEN HttpsScheme \o base_url
                    ELSE base_url
        cut      == IF EndsWith(schemed, Slash)
                    THEN SubSeq(schemed, 1, Len(schemed) - 1)
                    ELSE schemed
    IN  IF ~Contains(cut, ChatCompletions)
        THEN (IF ~EndsWith(cut, V1) THEN cut \o V1 ELSE cut) \o ChatCompletions
        ELSE cut

\* Values of resource_url: nothing, or a host (one of them begins with the
\* letters http) with or without scheme, followed by one of the tails.
Schemes == {<<>>, HttpScheme, HttpsScheme}

Hosts == {<<"p", "o", "r", "t", "a", "l", ".">> \o QwenHost, Http \o <<"d", ".">> \o QwenHost}

Tails ==
    {<<>>, Slash, Slash \o Slash, V1, V1 \o Slash, ChatCompletions,
     V1 \o ChatCompletions, V1 \o ChatCompletions \o Slash,
     V1 \o ChatCompletions \o Slash \o Slash, ChatCompletions \o V1}

ResourceUrls ==
    {<<>>} \cup {scheme \o host \o tail : scheme \in Schemes, host \in Hosts, tail \in Tails}

\* The resource URL of a client and the URLs computed so far, the first
\* from resource_url, each later one from the URL before it.
Api(resource_url, urls) == [resource_url |-> resource_url, urls |-> urls]

UrlInit == api \in {Api(resource_url, <<>>) : resource_url \in ResourceUrls}

UrlQuiet == api = Api(<<>>, <<>>)

\* _get_api_url is applied: to self._resource_url (chat, qwen_oauth.py 262),
\* then to its own result.
GetApiUrl ==
    /\ Len(api.urls) < MaxApply
    /\ api' = Api(api.resource_url,
                  Append(api.urls,
                         get_api_url(IF api.urls = <<>>
                                     THEN api.resource_url
                                     ELSE api.urls[Len(api.urls)])))
    /\ UNCHANGED <<relayVars, tokenVars, deviceVars, storeVars, altVars>>

UrlNext == GetApiUrl

\* =================================================== token lifecycle (Qwen)
\* Tasks that use the client, each for one chat() call.  Task 1 is also the
\* one that enters the client (async with client_context as client, main.py 62).
Callers == {1, 2}

\* dataclass OAuthToken; refresh_token 0 is the empty string
OAuthToken(access, refresh, expires_at) ==
    [access_token |-> access, refresh_token |-> refresh, expires_at |-> expires_at]

NoRefresh == 0

\* None
NoToken == OAuthToken(0, NoRefresh, 0)

\* A field the token response does not carry.
Absent == -1

\* expires_in values (minutes) a token response can carry.
ExpiresInValues == {2, Absent}

\* The token the endpoint answers with next: a new access token, a new refresh
\* token or none, and expires_in or none.
TokenData(with_refresh, expires_in) ==
    [access_token |-> issued + 2,
     refresh_token |-> IF with_refresh THEN issued + 2 ELSE Absent,
     expires_in |-> expires_in]

\* dict.get(key, default)
Get(value, default) == IF value = Absent THEN default ELSE value

\* _save_token, qwen_oauth.py 219-226: the OAuthToken built from token_data
TokenFrom(token_data) ==
    OAuthToken(token_data.access_token,
               Get(token_data.refresh_token, NoRefresh),
               now + Get(token_data.expires_in, DefaultExpiresIn))

\* The wall clock is read in minutes and moves on by more than the larger
\* safety margin at a time.
TickLen == LoadMargin + EnsureMargin

\* Rows the oauth_tokens table can hold when the client is constructed: none,
\* or a record that has expired, is inside the margin of
\* _load_or_refresh_token only, or is outside both margins; the first and the
\* last also without a refresh token.
StoredTokens ==
    {NoToken, OAuthToken(1, 1, 2)}
        \cup {OAuthToken(1, r, e) : r \in {NoRefresh, 1}, e \in {0, TickLen}}

\* What a token check has done so far (observed, never read by the program):
\* kind "load" | "ensure" | "forced" | "none"; about the record it started
\* with: whether its expires_at was at or before now, whether it was more than
\* the margin in the future, whether it had a refresh token, its access token;
\* then the refresh requests issued, whether the network was used, whether a
\* refresh failed, whether the stored record was deleted and the interactive
\* flow succeeded after that, the refresh requests issued after the failure,
\* and the access token returned (0: has not returned).
Check(kind, tok, margin) ==
    [kind |-> kind,
     expired |-> tok # NoToken /\ tok.expires_at <= now,
     fresh |-> tok # NoToken /\ tok.expires_at - margin > now,
     refreshable |-> tok.refresh_token # NoRefresh,
     access |-> tok.access_token,
     nrefresh |-> 0, net |-> FALSE, failed |-> FALSE, deleted |-> FALSE,
     reauth |-> FALSE, after |-> 0, returned |-> 0]

NoCheck == [kind |-> "none", expired |-> FALSE, fresh |-> FALSE, refreshable |-> FALSE,
            access |-> 0, nrefresh |-> 0, net |-> FALSE, failed |-> FALSE,
            deleted |-> FALSE, reauth |-> FALSE, after |-> 0, returned |-> 0]

\* The rejected refresh tokens the client still holds, in memory or in the
\* credential store, among the set r.
Held(r, m, d) == r \cap ({m.refresh_token, d.refresh_token} \ {NoRefresh})

NoReq == [refresh_token |-> NoRefresh, resent |-> FALSE, token |-> NoToken, bearer |-> 0]

\* A suspended call: pc is the await it is suspended at, ret is what called
\* the function it is in, in_try says whether _device_flow_auth was called
\* from inside the try block of _refresh_token, req is the request or write in
\* flight, forced counts the refreshes forced by a 401 in this chat() call.
Task(pc, ret, in_try, req, forced) ==
    [pc |-> pc, ret |-> ret, in_try |-> in_try, req |-> req, forced |-> forced]

\* The next position of a call together with its check.
Step(pc, ret, in_try, req, check) ==
    [pc |-> pc, ret |-> ret, in_try |-> in_try, req |-> req, check |-> check]

\* _refresh_token entry, qwen_oauth.py 172-194, called with continuation ret:
\* without a refresh token the stored record is deleted; otherwise the refresh
\* request is posted.
RefreshEntry(tok, check, ret) ==
    IF tok = NoToken \/ tok.refresh_token = NoRefresh
    THEN Step("delete", ret, FALSE, NoReq, [check EXCEPT !.failed = TRUE])
    ELSE Step("refresh_wait", ret, TRUE,
              [NoReq EXCEPT !.refresh_token = tok.refresh_token,
                            !.resent = tok.refresh_token \in rejected],
              [check EXCEPT !.nrefresh = @ + 1, !.net = TRUE,
                            !.after = IF check.failed THEN @ + 1 ELSE @])

\* chat, qwen_oauth.py 261-280: _ensure_valid_token returned access_token and
\* the chat request is posted with it.
ChatPost(tok, check) ==
    Step("chat_wait", "none", FALSE, [NoReq EXCEPT !.bearer = tok.access_token],
         [check EXCEPT !.returned = tok.access_token])

\* _ensure_valid_token with the margin of _load_or_refresh_token.
EnsureExpiring_LoadMargin(tok) == tok.expires_at - LoadMargin <= now

\* _load_or_refresh_token with the margin added instead of subtracted.
LoadExpiring_Late(tok) == tok.expires_at + LoadMargin <= now

\* qwen_oauth.py 234: the token is inside the safety margin of _ensure_valid_token
EnsureExpiring(tok) == tok.expires_at - EnsureMargin <= now

\* qwen_oauth.py 65: the token is inside the safety margin of _load_or_refresh_token
LoadExpiring(tok) == tok.expires_at - LoadMargin <= now

\* _ensure_valid_token, qwen_oauth.py 234-237
EnsureCheck(tok, check) ==
    IF EnsureExpiring(tok)
    THEN RefreshEntry(tok, check, "ensure")
    ELSE ChatPost(tok, check)

\* chat -> _ensure_valid_token, qwen_oauth.py 261 and 231-237
EnsureEntry(tok) ==
    IF tok = NoToken
    THEN Step("load", "ensure_load", FALSE, NoReq, Check("ensure", NoToken, EnsureMargin))
    ELSE EnsureCheck(tok, Check("ensure", tok, EnsureMargin))

\* Where a call goes on when _load_or_refresh_token or _refresh_token returns:
\* __aenter__ returns; _ensure_valid_token goes on at line 234 or returns the
\* access token; chat calls itself again (qwen_oauth.py 285).
Return(ret, tok, check) ==
    CASE ret = "enter" -> Step("idle", "none", FALSE, NoReq, [check EXCEPT !.returned = tok.access_token])
      [] ret = "ensure_load" -> EnsureCheck(tok, check)
      [] ret = "ensure" -> ChatPost(tok, check)
      [] ret = "retry" -> EnsureEntry(tok)

\* An exception leaves chat() (its caller may catch it and call again,
\* style_analyzer.py 173-186) or __aenter__ (the program ends, main.py 117-120).
Raised(ret, check) ==
    Step(IF ret = "enter" THEN "exit" ELSE "idle", "none", FALSE, NoReq, NoCheck)

\* The call of caller c moves to step L.
Apply(c, L) ==
    /\ task' = [task EXCEPT ![c] = Task(L.pc, L.ret, L.in_try, L.req,
                                        IF L.pc \in {"idle", "exit"} THEN 0 ELSE @.forced)]
    /\ ev' = [ev EXCEPT ![c] = L.check]
    /\ entered' = IF task[c].ret = "enter" /\ L.pc = "idle" THEN "yes" ELSE entered

\* The last answer to a chat request, and the status carried by the
\* HTTPStatusError that raise_for_status raised for it ("none": none).
ChatLog(answer, raised) == [answer |-> answer, raised |-> raised]

TokenInit ==
    /\ now = 0
    /\ mem = NoToken
    /\ db \in StoredTokens
    /\ entered = "no"
    /\ task = [c \in Callers |-> Task("idle", "none", FALSE, NoReq, 0)]
    /\ issued = 0
    /\ rejected = {}
    /\ called = {}
    /\ ev = [c \in Callers |-> NoCheck]
    /\ chatlog = [c \in Callers |-> ChatLog("none", "none")]

\* __aenter__, qwen_oauth.py 52-55 and 62: the client is entered and
\* _load_or_refresh_token waits for repo.get_token()
Enter ==
    /\ entered = "no"
    /\ task[1].pc = "idle"
    /\ Apply(1, Step("load", "enter", FALSE, NoReq, Check("load", NoToken, LoadMargin)))
    /\ UNCHANGED <<now, mem, db, issued, rejected, called>>
    /\ UNCHANGED chatlog
    /\ UNCHANGED <<relayVars, deviceVars, storeVars, altVars, urlVars>>

\* _load_or_refresh_token, qwen_oauth.py 62-69: get_token() returned
Load(c) ==
    /\ task[c].pc = "load"
    /\ mem' = db
    /\ rejected' = Held(rejected, db, db)
    /\ LET check == Check(ev[c].kind, db, LoadMargin)
       IN  Apply(c,
                 IF db # NoToken
                 THEN IF LoadExpiring(db)
                      THEN RefreshEntry(db, check, task[c].ret)
                      ELSE Return(task[c].ret, db, check)
                 ELSE Step("device_code_wait", task[c].ret, FALSE, NoReq,
                           [check EXCEPT !.net = TRUE]))
    /\ UNCHANGED <<now, db, issued, called>>
    /\ UNCHANGED chatlog
    /\ UNCHANGED <<relayVars, deviceVars, storeVars, altVars, urlVars>>

\* chat(messages, ...), qwen_oauth.py 255-280, up to its first await
ChatCall(c) ==
    /\ entered = "yes"
    /\ task[c].pc = "idle"
    /\ c \notin called
    /\ called' = called \cup {c}
    /\ LET L == EnsureEntry(mem)
       IN  /\ task' = [task EXCEPT ![c] = Task(L.pc, L.ret, L.in_try, L.req, 0)]
           /\ ev' = [ev EXCEPT ![c] = L.check]
    /\ UNCHANGED <<now, mem, db, entered, issued, rejected>>
    /\ UNCHANGED chatlog
    /\ UNCHANGED <<relayVars, deviceVars, storeVars, altVars, urlVars>>

\* What the endpoint can answer to a refresh request.
RefreshAnswers == {"200", "400", "500", "network_error"}

\* A _refresh_token that would start the device flow without delete_token().
AfterFailedRefresh_KeepRecord == "device_code_wait"

\* Where _refresh_token goes when the refresh did not succeed, qwen_oauth.py
\* 200-211: repo.delete_token(), then _device_flow_auth().
AfterFailedRefresh == "delete"

\* _refresh_token, qwen_oauth.py 196-211: the answer to the refresh request.
\* 200: _save_token sets self._token and waits for repo.save_token; anything
\* else: the stored record is deleted and the device flow follows (inside the
\* try block for a response, in the except handler for a network error).
RefreshResponse(c, answer) ==
    /\ task[c].pc = "refresh_wait"
    /\ IF answer = "200"
       THEN /\ task[c].req.refresh_token \notin rejected
            /\ issued < MaxTokens
            /\ \E with_refresh \in BOOLEAN, expires_in \in ExpiresInValues :
                  LET token == TokenFrom(TokenData(with_refresh, expires_in))
                  IN  /\ mem' = token
                      /\ rejected' = Held(rejected, token, db)
                      /\ Apply(c, Step("save", task[c].ret, FALSE,
                                       [NoReq EXCEPT !.token = token], ev[c]))
            /\ issued' = issued + 1
       ELSE /\ rejected' = IF answer = "400"
                           THEN Held(rejected \cup {task[c].req.refresh_token}, mem, db)
                           ELSE rejected
            /\ Apply(c, Step(AfterFailedRefresh, task[c].ret, answer # "network_error",
                             NoReq, [ev[c] EXCEPT !.failed = TRUE]))
            /\ UNCHANGED <<mem, issued>>
    /\ UNCHANGED <<now, db, called>>
    /\ UNCHANGED chatlog
    /\ UNCHANGED <<relayVars, deviceVars, storeVars, altVars, urlVars>>

\* _save_token, qwen_oauth.py 228: repo.save_token(token) is done, and the
\* function that obtained the token returns to its caller.
SaveDone(c) ==
    /\ task[c].pc = "save"
    /\ db' = task[c].req.token
    /\ rejected' = Held(rejected, mem, task[c].req.token)
    /\ Apply(c, Return(task[c].ret, mem, ev[c]))
    /\ UNCHANGED <<now, mem, issued, called>>
    /\ UNCHANGED chatlog
    /\ UNCHANGED <<relayVars, deviceVars, storeVars, altVars, urlVars>>

\* qwen_oauth.py 174-175, 202-203, 206-207, 210-211: repo.delete_token() is
\* done and _device_flow_auth posts the device-code request (87-91).
DeleteDone(c) ==
    /\ task[c].pc = "delete"
    /\ db' = NoToken
    /\ rejected' = Held(rejected, mem, NoToken)
    /\ Apply(c, Step("device_code_wait", task[c].ret, task[c].in_try, NoReq,
                     [ev[c] EXCEPT !.deleted = TRUE, !.net = TRUE]))
    /\ UNCHANGED <<now, mem, issued, called>>
    /\ UNCHANGED chatlog
    /\ UNCHANGED <<relayVars, deviceVars, storeVars, altVars, urlVars>>

\* What the endpoint can answer to the device-code request.
DeviceCodeAnswers == {"ok", "error", "network_error"}

\* _device_flow_auth, qwen_oauth.py 87-117: the answer to the device-code
\* request.  A non-2xx answer raises RuntimeError; a network error raises
\* httpx.HTTPError, which the except clause of _refresh_token (209-211)
\* catches when the flow was called from its try block.
DeviceCodeResponse(c, answer) ==
    /\ task[c].pc = "device_code_wait"
    /\ Apply(c,
             CASE answer = "ok" ->
                    Step("poll", task[c].ret, task[c].in_try, NoReq, ev[c])
               [] answer = "error" ->
                    Raised(task[c].ret, ev[c])
               [] answer = "network_error" ->
                    IF task[c].in_try
                    THEN Step("delete", task[c].ret, FALSE, NoReq, ev[c])
                    ELSE Raised(task[c].ret, ev[c]))
    /\ UNCHANGED <<now, mem, db, issued, rejected, called>>
    /\ UNCHANGED chatlog
    /\ UNCHANGED <<relayVars, deviceVars, storeVars, altVars, urlVars>>

\* How one round of the poll loop can end.
PollResults == {"success", "continue", "denied", "timeout"}

\* _device_flow_auth, qwen_oauth.py 119-169, one round of the poll loop with
\* the time it takes left open: the token arrives (_save_token), the loop
\* goes on (authorization_pending, slow_down, 429, network error), the
\* provider denies (RuntimeError), or the deadline has passed (RuntimeError).
Poll(c, result) ==
    /\ task[c].pc = "poll"
    /\ IF result = "success"
       THEN /\ issued < MaxTokens
            /\ \E with_refresh \in BOOLEAN, expires_in \in ExpiresInValues :
                  LET token == TokenFrom(TokenData(with_refresh, expires_in))
                  IN  /\ mem' = token
                      /\ rejected' = Held(rejected, token, db)
                      /\ Apply(c, Step("save", task[c].ret, FALSE,
                                       [NoReq EXCEPT !.token = token],
                                       [ev[c] EXCEPT !.reauth = TRUE]))
            /\ issued' = issued + 1
       ELSE /\ Apply(c,
                     IF result = "continue"
                     THEN Step("poll", task[c].ret, task[c].in_try, NoReq, ev[c])
                     ELSE Raised(task[c].ret, ev[c]))
            /\ UNCHANGED <<mem, issued, rejected>>
    /\ UNCHANGED <<now, db, called>>
    /\ UNCHANGED chatlog
    /\ UNCHANGED <<relayVars, deviceVars, storeVars, altVars, urlVars>>

\* What the chat endpoint can answer.
ChatAnswers == {"200", "401", "500"}

\* A chat that refreshes and calls again on every answer that is an error.
Retried_AnyError == {"401", "500"}

\* qwen_oauth.py 282-285: the status chat answers with _refresh_token and a
\* call of itself.
Retried == {"401"}

\* chat, qwen_oauth.py 282-293: the answer to the chat request.  401 calls
\* _refresh_token and then chat again; another failure raises; 200 returns.
ChatResponse(c, answer) ==
    /\ task[c].pc = "chat_wait"
    /\ CASE answer = "200" ->
              /\ Apply(c, Step("idle", "none", FALSE, NoReq, NoCheck))
              /\ chatlog' = [chatlog EXCEPT ![c] = ChatLog(answer, "none")]
         [] answer # "200" /\ answer \in Retried ->
              LET L == RefreshEntry(mem, Check("forced", mem, 0), "retry")
              IN  /\ task' = [task EXCEPT ![c] = Task(L.pc, L.ret, L.in_try, L.req,
                                                      @.forced + 1)]
                  /\ ev' = [ev EXCEPT ![c] = L.check]
                  /\ chatlog' = [chatlog EXCEPT ![c] = ChatLog(answer, "none")]
                  /\ UNCHANGED entered
         [] OTHER ->
              /\ Apply(c, Raised("none", ev[c]))
              /\ chatlog' = [chatlog EXCEPT ![c] = ChatLog(answer, answer)]
    /\ UNCHANGED <<now, mem, db, issued, rejected, called>>
    /\ UNCHANGED <<relayVars, deviceVars, storeVars, altVars, urlVars>>

\* Time passes.
Tick ==
    /\ now < MaxTicks * TickLen
    /\ now' = now + TickLen
    /\ UNCHANGED <<mem, db, entered, task, issued, rejected, called, ev>>
    /\ UNCHANGED chatlog
    /\ UNCHANGED <<relayVars, deviceVars, storeVars, altVars, urlVars>>

\* ============================================ device-code flow (seconds)
\* qwen_oauth.py:104  data.get("expires_in", 600)
DeviceExpiresIn == 600
\* qwen_oauth.py:105  data.get("interval", 5)
DefaultInterval == 5
\* qwen_oauth.py:156 and 162  interval += 5
SlowDownStep == 5
\* qwen_oauth.py:219  token_data.get("expires_in", 3600)
TokenExpiresIn == 3600

\* expires_in and interval values the device-code response can carry.
DeviceExpiresInValues == {7, Absent}

IntervalValues == {2, Absent}

\* Seconds a token-exchange request can take.
Durations == {0, 1}

\* self._resource_url = None, and the host of DEFAULT_API_URL (qwen_oauth.py 27)
NoUrl == "none"

DefaultHost == "chat.qwen.ai"

\* Token responses of the poll: expires_in 0, a minute or omitted, with or
\* without resource_url (NoUrl: the key is not in the response).
TokenResponses ==
    {[access_token |-> 1, refresh_token |-> 1, expires_in |-> e, resource_url |-> u] :
        e \in {0, 60, Absent}, u \in {NoUrl, "portal.qwen.ai"}}

\* No token response yet.
NoData == [access_token |-> 0, refresh_token |-> 0, expires_in |-> 0, resource_url |-> NoUrl]

\* What the token endpoint can answer to a poll: 200 with or without an
\* access token, 400 with an error code, 429, another status, or no answer.
PollAnswers ==
    {"token", "no_token", "authorization_pending", "slow_down", "expired_token",
     "access_denied", "429", "500", "network_error"}

\* A token-exchange request that lets no error end the flow.
Terminal_None == {}

\* qwen_oauth.py 158: the error codes that end the flow
Terminal == {"expired_token", "access_denied"}

\* An answer to slow_down that would add one second.
Slower_ByOne(interval) == interval + 1

\* qwen_oauth.py 156 and 162: interval += 5
Slower(interval) == interval + SlowDownStep

\* qwen_oauth.py 155-157 and 161-163: the answers that raise the interval
SlowAnswers == {"slow_down", "429"}

\* A sleep that would return at once.
SleepUntil_NoWait(at, interval) == at

\* qwen_oauth.py 120: await asyncio.sleep(interval) returns interval seconds later
SleepUntil(at, interval) == at + interval

\* Position, interval and deadline of a flow; error names what ended it.
Flow(pc, interval, deadline, error) ==
    [pc |-> pc, interval |-> interval, deadline |-> deadline, error |-> error]

\* qwen_oauth.py 119 and 169: the loop goes on while now < deadline, otherwise
\* RuntimeError("Authorization timed out")
LoopHead(at, interval, deadline) ==
    IF at < deadline
    THEN Flow("sleep", interval, deadline, "none")
    ELSE Flow("failed", interval, deadline, "timeout")

\* A _save_token that would take the lifetime of the device code as default.
SavedToken_DeviceDefault(token_data, at) ==
    OAuthToken(token_data.access_token,
               Get(token_data.refresh_token, NoRefresh),
               at + Get(token_data.expires_in, DeviceExpiresIn))

\* _save_token, qwen_oauth.py 219-226, at time at (seconds)
SavedToken(token_data, at) ==
    OAuthToken(token_data.access_token,
               Get(token_data.refresh_token, NoRefresh),
               at + Get(token_data.expires_in, TokenExpiresIn))

\* _get_api_url, qwen_oauth.py 240: self._resource_url or DEFAULT_API_URL
ApiHost(resource_url) == IF resource_url # NoUrl THEN resource_url ELSE DefaultHost

Client(token, resource_url) == [token |-> token, resource_url |-> resource_url]

DeviceInit ==
    /\ dnow = 0
    /\ flow = Flow("device_code_wait", 0, 0, "none")
    /\ polls = <<>>
    /\ dclient = Client(NoToken, NoUrl)
    /\ dstore = NoToken
    /\ sent = {}
    /\ dghost = [started |-> 0, interval0 |-> 0, expires_in |-> 0,
                 data |-> NoData, writes |-> 0, written_at |-> 0]

\* _device_flow_auth, qwen_oauth.py 87-119: the answer to the device-code
\* request; a non-2xx answer raises RuntimeError, otherwise the deadline is
\* set and the loop is entered.
DeviceCode(ok, expires_in, interval) ==
    /\ flow.pc = "device_code_wait"
    /\ IF ok
       THEN /\ flow' = LoopHead(dnow, Get(interval, DefaultInterval),
                                dnow + Get(expires_in, DeviceExpiresIn))
            /\ dghost' = [dghost EXCEPT !.started = dnow,
                                        !.interval0 = Get(interval, DefaultInterval),
                                        !.expires_in = Get(expires_in, DeviceExpiresIn)]
       ELSE /\ flow' = Flow("failed", 0, 0, "device_code")
            /\ UNCHANGED dghost
    /\ UNCHANGED <<dnow, polls, dclient, dstore, sent>>
    /\ UNCHANGED <<relayVars, tokenVars, storeVars, altVars, urlVars>>

\* qwen_oauth.py 120-139: the sleep is over and the token-exchange request is
\* posted.
Sleep ==
    /\ flow.pc = "sleep"
    /\ Len(polls) < MaxPolls
    /\ dnow' = SleepUntil(dnow, flow.interval)
    /\ polls' = Append(polls, [at |-> dnow', wait |-> flow.interval, answer |-> "none"])
    /\ flow' = [flow EXCEPT !.pc = "poll_wait"]
    /\ UNCHANGED <<dclient, dstore, sent, dghost>>
    /\ UNCHANGED <<relayVars, tokenVars, storeVars, altVars, urlVars>>

\* qwen_oauth.py 141-169: the answer to the token-exchange request, dur
\* seconds after it was posted.
PollAnswer(answer, dur) ==
    /\ flow.pc = "poll_wait"
    /\ dnow' = dnow + dur
    /\ polls' = [polls EXCEPT ![Len(polls)].answer = answer]
    /\ IF answer = "token"
       THEN \E token_data \in TokenResponses :
               /\ dclient' = Client(SavedToken(token_data, dnow'),
                                    IF token_data.resource_url # NoUrl
                                    THEN token_data.resource_url
                                    ELSE dclient.resource_url)
               /\ dghost' = [dghost EXCEPT !.data = token_data]
               /\ flow' = [flow EXCEPT !.pc = "save"]
       ELSE /\ flow' = CASE answer \in Terminal ->
                              Flow("failed", flow.interval, flow.deadline, "denied")
                         [] answer \in SlowAnswers \ Terminal ->
                              LoopHead(dnow', Slower(flow.interval), flow.deadline)
                         [] OTHER ->
                              LoopHead(dnow', flow.interval, flow.deadline)
            /\ UNCHANGED <<dclient, dghost>>
    /\ UNCHANGED <<dstore, sent>>
    /\ UNCHANGED <<relayVars, tokenVars, storeVars, altVars, urlVars>>

\* _save_token, qwen_oauth.py 228: repo.save_token(self._token) is done and
\* _device_flow_auth returns (145-147).
SaveToken ==
    /\ flow.pc = "save"
    /\ dstore' = dclient.token
    /\ dghost' = [dghost EXCEPT !.writes = @ + 1, !.written_at = dnow]
    /\ flow' = [flow EXCEPT !.pc = "done"]
    /\ UNCHANGED <<dnow, polls, dclient, sent>>
    /\ UNCHANGED <<relayVars, tokenVars, storeVars, altVars, urlVars>>

\* chat, qwen_oauth.py 261-280, with a token outside the margin of
\* _ensure_valid_token: the request goes to the host of _get_api_url.
DeviceChat ==
    /\ flow.pc = "done"
    /\ dclient.token.expires_at - EnsureMargin * 60 > dnow
    /\ sent' = sent \cup {[token |-> dclient.token.access_token,
                           host |-> ApiHost(dclient.resource_url)]}
    /\ UNCHANGED <<dnow, flow, polls, dclient, dstore, dghost>>
    /\ UNCHANGED <<relayVars, tokenVars, storeVars, altVars, urlVars>>

\* The program is started again: QwenClient.__init__ (45-50) and
\* _load_or_refresh_token (62-65) with a stored token outside its margin.
Restart ==
    /\ flow.pc = "done"
    /\ dstore # NoToken
    /\ dstore.expires_at - LoadMargin * 60 > dnow
    /\ dclient' = Client(dstore, NoUrl)
    /\ UNCHANGED <<dnow, flow, polls, dstore, sent, dghost>>
    /\ UNCHANGED <<relayVars, tokenVars, storeVars, altVars, urlVars>>

DeviceNext ==
    \/ \E ok \in BOOLEAN, expires_in \in DeviceExpiresInValues, interval \in IntervalValues :
          DeviceCode(ok, expires_in, interval)
    \/ Sleep
    \/ \E answer \in PollAnswers, dur \in Durations : PollAnswer(answer, dur)
    \/ SaveToken
    \/ DeviceChat
    \/ Restart

TokenNext ==
    \/ Enter
    \/ \E c \in Callers : Load(c)
    \/ \E c \in Callers : ChatCall(c)
    \/ \E c \in Callers, answer \in RefreshAnswers : RefreshResponse(c, answer)
    \/ \E c \in Callers : SaveDone(c)
    \/ \E c \in Callers : DeleteDone(c)
    \/ \E c \in Callers, answer \in DeviceCodeAnswers : DeviceCodeResponse(c, answer)
    \/ \E c \in Callers, result \in PollResults : Poll(c, result)
    \/ \E c \in Callers, answer \in ChatAnswers : ChatResponse(c, answer)
    \/ Tick

RelayNext ==
    \/ \E out \in BOOLEAN : OnMessage(out)
    \/ OnMessagePut
    \/ Dequeue
    \/ AutoReplyDelay
    \/ FetchContext
    \/ \E raw \in RawResponses : Generate(raw)
    \/ GenerateFail
    \/ \E ok \in BOOLEAN : AutoSend(ok)
    \/ \E ok \in BOOLEAN : ActSend(ok)
    \/ \E edited \in EditInputs, ok \in BOOLEAN : ActEdit(edited, ok)
    \/ ActRegenerate
    \/ ActSkip
    \/ PersistReply
    \/ Stop

\* ------------------------------------------------------ credential store
Providers == {"qwen", "google"}

\* Columns of oauth_tokens as SCHEMA creates it.
SchemaColumns ==
    {"provider", "access_token", "refresh_token", "expires_at", "updated_at"}

\* Columns of an oauth_tokens table that holds the column the statements of
\* Repository name. CREATE TABLE IF NOT EXISTS leaves such a table of an existing
\* database file as it is.
LegacyColumns ==
    {"id", "access_token", "refresh_token", "expires_at", "updated_at"}

\* Columns named by the INSERT, the SELECT and the DELETE.
SaveColumns ==
    {"id", "access_token", "refresh_token", "expires_at", "updated_at"}

GetColumns == {"id", "access_token", "refresh_token", "expires_at"}

DeleteColumns == {"id"}

\* The key every statement uses.
TokenRowId == 1

Table(columns, rows) == [columns |-> columns, rows |-> rows]

\* Times of the store count parts of a second: Subsecond of them make one.
Subsecond == 2

\* datetime.isoformat() (repository.py 205): the seconds, and the fraction
\* only when it is not zero.
isoformat(dt) ==
    IF dt % Subsecond = 0
    THEN <<dt \div Subsecond>>
    ELSE <<dt \div Subsecond, dt % Subsecond>>

\* datetime.fromisoformat(text) (repository.py 218): a text without fraction
\* is a time with fraction zero.
fromisoformat(text) ==
    text[1] * Subsecond + (IF Len(text) > 1 THEN text[2] ELSE 0)

\* The values save_token binds to the INSERT (repository.py 205), and the
\* OAuthToken get_token builds of a row (215-219).
Values(token) ==
    [access_token |-> token.access_token, refresh_token |-> token.refresh_token,
     expires_at |-> isoformat(token.expires_at)]

TokenOf(values) ==
    OAuthToken(values.access_token, values.refresh_token,
               fromisoformat(values.expires_at))

Row(key, values) == [key |-> key, values |-> values]

\* Outcome of a call: the exception raised, the value returned, the table after.
Result(raised, returned, after) ==
    [raised |-> raised, returned |-> returned, table |-> after]

\* sqlite3 compiles a statement only if the table has every column it names.
Prepared(columns, t) == columns \subseteq t.columns

\* The token of the row the statements address (NoToken: no such row).
StoredRow(t) ==
    LET found == {r \in t.rows : r.key = TokenRowId}
    IN IF found = {} THEN NoToken ELSE TokenOf((CHOOSE r \in found : TRUE).values)

save_token(t, token) ==
    IF Prepared(SaveColumns, t)
    THEN Result("none", NoToken,
                Table(t.columns, {r \in t.rows : r.key # TokenRowId}
                                     \cup {Row(TokenRowId, Values(token))}))
    ELSE Result("OperationalError", NoToken, t)

get_token(t) ==
    IF Prepared(GetColumns, t)
    THEN Result("none", StoredRow(t), t)
    ELSE Result("OperationalError", NoToken, t)

delete_token(t) ==
    IF Prepared(DeleteColumns, t)
    THEN Result("none", NoToken,
                Table(t.columns, {r \in t.rows : r.key # TokenRowId}))
    ELSE Result("OperationalError", NoToken, t)

\* Keyword parameters of Repository.get_token, and the fields of OAuthToken.
GetTokenParams == {}

OAuthTokenFields == {"access_token", "refresh_token", "expires_at"}

\* Keywords each client passes to get_token and to OAuthToken(...).
GetKwargs(p) == IF p = "google" THEN {"provider"} ELSE {}

TokenKwargs(p) ==
    IF p = "google" THEN OAuthTokenFields \cup {"provider"} ELSE OAuthTokenFields

\* Python binds the keywords before the body runs: an unknown one is a TypeError.
CallGet(p, t) ==
    IF GetKwargs(p) \subseteq GetTokenParams
    THEN get_token(t)
    ELSE Result("TypeError", NoToken, t)

\* The client builds OAuthToken(...) and passes it to save_token.
CallSave(p, t, token) ==
    IF TokenKwargs(p) \subseteq OAuthTokenFields
    THEN save_token(t, token)
    ELSE Result("TypeError", NoToken, t)

\* expires_in values a token response can carry, and the rows a database file
\* can hold when the program starts.
StoreExpiresIn == {0, 2}

StoreTokens ==
    {OAuthToken(a, r, e) : a \in 1..MaxTokens, r \in {NoRefresh, 1}, e \in StoreExpiresIn}

Tables ==
    {Table(SchemaColumns, {}), Table(LegacyColumns, {})}
        \cup {Table(LegacyColumns, {Row(TokenRowId, Values(tok))}) : tok \in StoreTokens}

\* google.oauth2 Credentials: token, refresh_token, expiry.
Creds(token, refresh, expiry) ==
    [token |-> token, refresh_token |-> refresh, expiry |-> expiry]

NoCreds == Creds(0, NoRefresh, Absent)

\* Credentials.expired: never, when no expiry was given.
Expired(creds, at) == creds.expiry # Absent /\ creds.expiry <= at

\* GoogleClient: where it is, what it raised, self._creds; and, for the record,
\* the row the store held when it was entered and the time of the entry.
GClient(pc, error, creds, stored, at) ==
    [pc |-> pc, error |-> error, creds |-> creds, stored |-> stored, at |-> at]

Log(who, op, raised, returned, before, saved) ==
    [who |-> who, op |-> op, raised |-> raised, returned |-> returned,
     before |-> before, saved |-> saved]

StoreInit ==
    /\ table \in Tables
    /\ gclient = GClient("new", "none", NoCreds, NoToken, 0)
    /\ sclock = 0
    /\ slog = Log("none", "none", "none", NoToken, table,
                  [p \in Providers |-> IF p = "qwen" THEN StoredRow(table) ELSE NoToken])

\* QwenClient._save_token: OAuthToken(...), then repo.save_token.
QwenSave(access, refresh, expires_in) ==
    /\ LET token == OAuthToken(access, refresh, sclock + expires_in)
           r == CallSave("qwen", table, token)
       IN /\ table' = r.table
          /\ slog' = Log("qwen", "save_token", r.raised, r.returned, table,
                         [slog.saved EXCEPT !["qwen"] = token])
    /\ UNCHANGED <<gclient, sclock>>
    /\ UNCHANGED <<relayVars, tokenVars, deviceVars, altVars, urlVars>>

\* QwenClient._load_or_refresh_token: repo.get_token().
QwenGet ==
    /\ LET r == CallGet("qwen", table)
       IN slog' = Log("qwen", "get_token", r.raised, r.returned, table, slog.saved)
    /\ UNCHANGED <<table, gclient, sclock>>
    /\ UNCHANGED <<relayVars, tokenVars, deviceVars, altVars, urlVars>>

\* QwenClient._refresh_token: repo.delete_token().
QwenDelete ==
    /\ LET r == delete_token(table)
       IN /\ table' = r.table
          /\ slog' = Log("qwen", "delete_token", r.raised, r.returned, table,
                         [slog.saved EXCEPT !["qwen"] = NoToken])
    /\ UNCHANGED <<gclient, sclock>>
    /\ UNCHANGED <<relayVars, tokenVars, deviceVars, altVars, urlVars>>

\* GoogleClient._auth_flow: the client secret file may be missing and the local
\* server flow may fail; after a flow that succeeded _save_creds builds
\* OAuthToken(..., provider="google"), and the TypeError is raised again.
AuthFlowError(secret, flow_ok) ==
    IF ~secret THEN "FileNotFoundError"
    ELSE IF ~flow_ok THEN "Exception"
    ELSE IF CallSave("google", table, NoToken).raised # "none"
         THEN CallSave("google", table, NoToken).raised
         ELSE "none"

\* GoogleClient.__aenter__: _load_or_refresh_token, as `async with` runs it.
\* chat() is called only inside the `async with` block.
GoogleEnter(secret, flow_ok) ==
    /\ gclient.pc = "new"
    /\ LET got == CallGet("google", table)
           stored == StoredRow(table)
           creds == Creds(got.returned.access_token, got.returned.refresh_token, Absent)
           auth == AuthFlowError(secret, flow_ok)
       IN /\ gclient' =
                IF got.raised # "none"
                THEN GClient("raised", got.raised, NoCreds, stored, sclock)
                ELSE IF got.returned # NoToken /\ ~secret
                THEN GClient("raised", "FileNotFoundError", NoCreds, stored, sclock)
                ELSE IF got.returned # NoToken /\ ~Expired(creds, sclock)
                THEN GClient("entered", "none", creds, stored, sclock)
                ELSE IF auth # "none"
                THEN GClient("raised", auth, NoCreds, stored, sclock)
                ELSE GClient("entered", "none", Creds(MaxTokens, 1, Absent), stored, sclock)
          /\ slog' = Log("google", "get_token", got.raised, got.returned, table,
                         slog.saved)
    /\ UNCHANGED <<table, sclock>>
    /\ UNCHANGED <<relayVars, tokenVars, deviceVars, altVars, urlVars>>

\* Time passes.
StoreTick ==
    /\ sclock < MaxTicks
    /\ sclock' = sclock + 1
    /\ UNCHANGED <<table, gclient, slog>>
    /\ UNCHANGED <<relayVars, tokenVars, deviceVars, altVars, urlVars>>

StoreNext ==
    \/ \E access \in 1..MaxTokens, refresh \in {NoRefresh, 1},
          expires_in \in StoreExpiresIn : QwenSave(access, refresh, expires_in)
    \/ QwenGet
    \/ QwenDelete
    \/ \E secret \in BOOLEAN, flow_ok \in BOOLEAN : GoogleEnter(secret, flow_ok)
    \/ StoreTick

\* The credential store before any client is constructed: a table the
\* statements of Repository execute on, with no row.
StoreQuiet ==
    /\ StoreInit
    /\ table = Table(LegacyColumns, {})

\* The relay engine before any message, with the client not in use.
RelayQuiet ==
    /\ RelayInit
    /\ ~auto_reply
    /\ utc_offset = 0
    /\ store = History
    /\ message_queue = <<>>

\* The client before it is entered, with an empty credential store.
TokenQuiet ==
    /\ TokenInit
    /\ db = NoToken

\* run_chat_mode starts; the client is left aside.
InitRelay == RelayInit /\ TokenQuiet /\ DeviceInit /\ StoreQuiet /\ AltInit /\ UrlQuiet

\* QwenClient is constructed; the relay engine is left aside.
InitToken == TokenInit /\ RelayQuiet /\ DeviceInit /\ StoreQuiet /\ AltInit /\ UrlQuiet

\* The relay engine: listener and processor.
SpecRelay == InitRelay /\ [][RelayNext]_vars

\* What the event loop runs whenever it can: the steps of process_messages
\* that wait for no user (the queue get, the delay, the context query, the
\* answer or failure of a generation, the auto-reply send, the save).
ProcessorStep ==
    \/ Dequeue
    \/ AutoReplyDelay
    \/ FetchContext
    \/ \E raw \in RawResponses : Generate(raw)
    \/ GenerateFail
    \/ \E ok \in BOOLEAN : AutoSend(ok)
    \/ PersistReply

\* The relay engine under a scheduler that lets the processor run.
FairRelay == SpecRelay /\ WF_vars(ProcessorStep)

\* The token lifecycle and the chat transport under concurrent callers.
SpecToken == InitToken /\ [][TokenNext]_vars

\* One device-code flow of a client with an empty credential store.
InitDevice == DeviceInit /\ RelayQuiet /\ TokenQuiet /\ StoreQuiet /\ AltInit /\ UrlQuiet

\* The device-code flow, the token it stores and the chat requests after it.
SpecDevice == InitDevice /\ [][DeviceNext]_vars

\* The oauth_tokens table of a database file, with no client entered yet.
InitStore == StoreInit /\ RelayQuiet /\ TokenQuiet /\ DeviceInit /\ AltInit /\ UrlQuiet

\* The store operations of the two clients on the oauth_tokens table.
SpecStore == InitStore /\ [][StoreNext]_vars

\* One call of generate_multiple is about to be made.
InitAlternatives ==
    AltInit /\ RelayQuiet /\ TokenQuiet /\ DeviceInit /\ StoreQuiet /\ UrlQuiet

\* generate_multiple called once, with each count and context.
SpecAlternatives == InitAlternatives /\ [][AltNext]_vars

\* A client is given a resource URL.
InitApiUrl ==
    UrlInit /\ RelayQuiet /\ TokenQuiet /\ DeviceInit /\ StoreQuiet /\ AltInit

\* The completions URL computed from each resource URL, and again from it.
SpecApiUrl == InitApiUrl /\ [][UrlNext]_vars

\* ================================================================ claims
\* Outgoing rows the session added to the table rows, oldest first.
RepliesIn(rows) ==
    SelectSeq(get_messages(rows),
              LAMBDA r : r.telegram_msg_id = ReplyMsgId /\ r # EarlierReply)

\* Outgoing rows the session added to the messages table, oldest first.
SessionReplies == RepliesIn(store)

\* The message with this id came from the contact.
Inbound(id) == id > HistoryLen \/ ~History[id].is_outgoing

\* State of the decision cycle of message id ("none": not dequeued yet).
Outcome(id) == IF id \in DOMAIN outcome THEN outcome[id] ELSE "none"

\* Position of id in the order of dequeues (0: never dequeued).
DequeuePos(id) ==
    IF \E i \in 1..Len(dequeued) : dequeued[i] = id
    THEN CHOOSE i \in 1..Len(dequeued) : dequeued[i] = id
    ELSE 0

\* C1: with three inbound messages A, B, C enqueued in that order and "send"
\* chosen for each candidate, exactly three outgoing messages are persisted,
\* one reply per inbound message, in the order A, B, C.
C1_ThreeSendsThreePersisted ==
    ( /\ Len(enqueued) = 3
      /\ \A i \in 1..3 : Inbound(enqueued[i]) /\ Outcome(enqueued[i]) = "sent"
      /\ Len(transmitted) = 3
      /\ \A i \in 1..3 : transmitted[i].via = "send" /\ transmitted[i].re = enqueued[i] )
    => ( /\ Len(SessionReplies) = 3
         /\ \A i \in 1..3 : SessionReplies[i].text = transmitted[i].text )

\* C2: the processor dequeues in arrival order and never dequeues a message
\* while an earlier one is unresolved: every dequeued message but the last has
\* reached sent or skipped, and transmissions follow the order of the dequeues.
C2_OneCycleAtATime ==
    /\ dequeued = SubSeq(enqueued, 1, Len(dequeued))
    /\ \A i \in 1..(Len(dequeued) - 1) : Outcome(dequeued[i]) \in {"sent", "skipped"}
    /\ \A i \in 1..Len(transmitted) : DequeuePos(transmitted[i].re) > 0
    /\ \A i, j \in 1..Len(transmitted) :
          i < j => DequeuePos(transmitted[i].re) <= DequeuePos(transmitted[j].re)

\* C2 witness: a second message is in its decision cycle after the first was
\* answered, and a third waits in the queue.
C2_Witness ==
    /\ Len(dequeued) >= 2
    /\ Len(transmitted) >= 1
    /\ ppc = "menu"
    /\ message_queue # <<>>

\* ------------------------------------------------------ token claims
\* Positions at which a call is inside a refresh or an interactive
\* authorization (a request or a credential-store write of one is in flight).
Authorizing == {"refresh_wait", "delete", "device_code_wait", "poll", "save"}

\* The calls of _load_or_refresh_token (at client entry) and of
\* _ensure_valid_token (in chat) are the calls of ensure_valid.
EnsureValidKinds == {"load", "ensure"}

\* ensure_valid of caller c has returned an access token.
Returned(c) == ev[c].kind \in EnsureValidKinds /\ ev[c].returned # 0

\* C3: a chat request answered with 401 gets exactly one forced refresh and one
\* retry; a second 401 ends the call instead of forcing another refresh.
C3_OneForcedRefresh ==
    \A c \in Callers : task[c].forced <= 1

\* C4: two refresh or authorization attempts are never in flight at the same
\* time; a second caller waits for the one in progress.
C4_SingleFlight ==
    Cardinality({c \in Callers : task[c].pc \in Authorizing}) <= 1

\* C5 as stated: for every token record whose expires_at is at or before now,
\* one call of ensure_valid issues exactly one refresh request before it returns.
C5_ExpiredOneRefresh ==
    \A c \in Callers :
        (Returned(c) /\ ev[c].expired) => ev[c].nrefresh = 1

\* C5 amended: for every token record with a refresh token whose expires_at is
\* at or before now, one call of ensure_valid issues exactly one refresh
\* request before it returns, be the record in memory or first loaded.
C5_ExpiredRefreshableOneRefresh ==
    \A c \in Callers :
        (Returned(c) /\ ev[c].expired /\ ev[c].refreshable) => ev[c].nrefresh = 1

C5_Witness ==
    \E c \in Callers :
        /\ ev[c].kind = "ensure"
        /\ ev[c].expired /\ ev[c].refreshable
        /\ ev[c].returned # 0 /\ ev[c].nrefresh = 1
        /\ task[c].pc = "chat_wait"

\* C6: for every token record whose expires_at is more than the safety margin
\* in the future, ensure_valid returns the cached access token unchanged and
\* issues no network request (no refresh, no device-code request, no poll).
C6_FreshNoNetwork ==
    \A c \in Callers :
        (ev[c].kind \in EnsureValidKinds /\ ev[c].fresh)
        => ( /\ ~ev[c].net
             /\ ev[c].nrefresh = 0
             /\ ev[c].returned = ev[c].access
             /\ ev[c].access # 0
             /\ task[c].pc \notin Authorizing )

C6_Witness ==
    \E c \in Callers :
        /\ ev[c].kind = "ensure"
        /\ ev[c].fresh
        /\ task[c].pc = "chat_wait"
        /\ task[c].req.bearer = mem.access_token
        /\ now > 0

\* C7: when a refresh does not succeed (400, another status, a network error,
\* no refresh token on entry) the call issues no further refresh request, and
\* it obtains a token and completes only after the stored record was deleted
\* and the interactive flow succeeded.
C7_FailedRefreshReauthorizes ==
    \A c \in Callers :
        ev[c].failed
        => ( /\ ev[c].after = 0
             /\ task[c].pc # "refresh_wait"
             /\ (ev[c].returned # 0 \/ task[c].pc = "save")
                => (ev[c].deleted /\ ev[c].reauth) )

C7_Witness ==
    \E c \in Callers :
        /\ ev[c].kind = "ensure"
        /\ ev[c].failed /\ ev[c].nrefresh = 1
        /\ ev[c].deleted /\ ev[c].reauth
        /\ ev[c].returned # 0
        /\ db = mem

\* C8: a refresh token the provider has rejected is never sent in a later
\* refresh request, and while the client is in use and no authorization is in
\* progress the in-memory token is not the rejected record.
C8_RejectedNeverResent ==
    /\ \A c \in Callers : task[c].pc = "refresh_wait" => ~task[c].req.resent
    /\ (entered = "yes" /\ \A c \in Callers : task[c].pc \notin Authorizing)
       => mem.refresh_token \notin rejected

\* ------------------------------------------------- device-flow claims
\* Seconds between token-exchange request i and the one before it (the start
\* of polling for the first).
PollGap(i) == polls[i].at - (IF i = 1 THEN dghost.started ELSE polls[i - 1].at)

\* The interval in force after the answer to request i.
IntervalAfter(i) == IF i < Len(polls) THEN polls[i + 1].wait ELSE flow.interval

\* After the answer to request i the loop has gone on (to the next sleep, or
\* to the deadline test that ends it).
GoesOn(i) ==
    \/ i < Len(polls)
    \/ flow.pc = "sleep"
    \/ flow.pc = "failed" /\ flow.error = "timeout"

\* C11: within one flow two consecutive token-exchange requests are at least
\* the current interval apart, every request follows a wait of the current
\* interval, and the interval never decreases.
C11_PollSpacing ==
    /\ \A i \in 1..Len(polls) :
          /\ PollGap(i) >= polls[i].wait
          /\ polls[i].wait >= dghost.interval0
          /\ IntervalAfter(i) >= polls[i].wait
    /\ polls # <<>> => polls[1].wait = dghost.interval0

C11_Witness ==
    /\ Len(polls) = 3
    /\ polls[3].wait > polls[2].wait
    /\ polls[2].wait = polls[1].wait
    /\ PollGap(3) > polls[3].wait

\* C12: slow_down and 429 raise the interval by exactly 5 seconds,
\* authorization_pending and a network error leave it unchanged, and polling
\* goes on in all four cases; after two slow_down answers the three waits are
\* interval, interval + 5, interval + 10.
C12_IntervalSteps ==
    /\ \A i \in 1..Len(polls) :
          /\ polls[i].answer \in {"slow_down", "429"}
             => (IntervalAfter(i) = polls[i].wait + 5 /\ GoesOn(i))
          /\ polls[i].answer \in {"authorization_pending", "network_error"}
             => (IntervalAfter(i) = polls[i].wait /\ GoesOn(i))
    /\ (Len(polls) >= 3 /\ polls[1].answer = "slow_down" /\ polls[2].answer = "slow_down")
       => <<polls[1].wait, polls[2].wait, polls[3].wait>>
          = <<dghost.interval0, dghost.interval0 + 5, dghost.interval0 + 10>>

C12_Witness ==
    /\ Len(polls) = 3
    /\ polls[1].answer = "slow_down"
    /\ polls[2].answer = "slow_down"
    /\ polls[3].answer = "authorization_pending"
    /\ polls[3].wait = DefaultInterval + 10
    /\ flow.pc = "sleep"

\* C13: no token-exchange request is issued later than expires_in seconds
\* after polling started, and a flow that is still waiting is not past it.
C13_DeadlineBoundsFlow ==
    /\ \A i \in 1..Len(polls) : polls[i].at <= dghost.started + dghost.expires_in
    /\ flow.pc = "poll_wait" => dnow <= dghost.started + dghost.expires_in

\* C14: a poll answered 400 expired_token or access_denied ends the flow in
\* failure at once: it is the last request and no token record is written.
C14_DenialEndsFlow ==
    \A i \in 1..Len(polls) :
        polls[i].answer \in {"expired_token", "access_denied"}
        => ( /\ i = Len(polls)
             /\ flow.pc = "failed"
             /\ flow.error = "denied"
             /\ dghost.writes = 0
             /\ dstore = NoToken )

C14_Witness ==
    /\ Len(polls) = 2
    /\ polls[1].answer = "authorization_pending"
    /\ polls[2].answer = "access_denied"
    /\ flow.pc = "failed"

\* C15: a poll answered 200 with an access token ends the flow in success
\* with exactly one token record written, whose expires_at is the time of the
\* write plus the expires_in of the response (3600 when omitted).
C15_SuccessWritesOneRecord ==
    /\ \A i \in 1..Len(polls) :
          polls[i].answer = "token" => (i = Len(polls) /\ flow.pc \in {"save", "done"})
    /\ flow.pc = "done"
       => ( /\ dghost.writes = 1
            /\ dstore.access_token = dghost.data.access_token
            /\ dstore.expires_at
               = dghost.written_at + (IF dghost.data.expires_in = Absent
                                      THEN 3600
                                      ELSE dghost.data.expires_in) )
    /\ flow.pc # "done" => (dghost.writes = 0 /\ dstore = NoToken)

C15_Witness ==
    /\ flow.pc = "done"
    /\ Len(polls) = 3
    /\ polls[1].answer = "slow_down"
    /\ polls[2].answer = "slow_down"
    /\ dghost.data.expires_in = Absent
    /\ dstore.expires_at = polls[3].at + 1 + 3600

\* C17: every token record written to the credential store has, when it is
\* written, an expires_at strictly later than the current time.
C17_StoredExpiryInFuture ==
    dghost.writes > 0 => dstore.expires_at > dghost.written_at

\* C18: once a token response has carried a resource_url, every chat request
\* made with that token goes to that host, also after the token record is
\* loaded again from the credential store.
C18_ResourceUrlSticks ==
    dghost.data.resource_url # NoUrl
    => \A r \in sent : r.host = dghost.data.resource_url

\* What get_token answers a provider on table t.
Visible(p, t) ==
    [raised |-> CallGet(p, t).raised, returned |-> CallGet(p, t).returned]

\* C16: the store is keyed by provider with at most one record per provider:
\* get_token returns to a provider the record that provider saved last (none
\* after its delete_token), and a save_token or delete_token of one provider
\* leaves what the other provider gets unchanged.
C16_KeyedByProvider ==
    /\ slog.op = "get_token"
       => slog.raised = "none" /\ slog.returned = slog.saved[slog.who]
    /\ slog.op \in {"save_token", "delete_token"}
       => \A p \in Providers \ {slog.who} : Visible(p, table) = Visible(p, slog.before)

LastVia == IF transmitted = <<>> THEN "none" ELSE transmitted[Len(transmitted)].via

\* The step is the save that follows a transmission made by action via.
SaveAfter(via) == ppc = "save" /\ ppc' = "get" /\ LastVia = via

\* The step transmits, by action via.
TransmitBy(via) ==
    /\ Len(transmitted') = Len(transmitted) + 1
    /\ transmitted'[Len(transmitted')].via = via

\* The save of the step adds one outgoing row with the candidate as its text
\* and ends the cycle in sent.
PersistsCandidate ==
    /\ Len(RepliesIn(store')) = Len(RepliesIn(store)) + 1
    /\ RepliesIn(store')[Len(RepliesIn(store'))].text = current_response
    /\ outcome'[msg.telegram_msg_id] = "sent"
    /\ transmitted' = transmitted

\* C21: send transmits the current candidate unchanged, once, and its save
\* persists it as one more outgoing message and ends the cycle in sent.
C21_SendTransmitsAndPersists ==
    [][ /\ TransmitBy("send")
            => /\ transmitted'[Len(transmitted')].text = current_response
               /\ current_response' = current_response
        /\ SaveAfter("send") => PersistsCandidate ]_vars

\* The step is an edit whose text is empty once trimmed: the menu is shown
\* again and it counts as one more action of the cycle.
EmptyEditStep == ppc = "menu" /\ ppc' = "menu" /\ nretry' = nretry + 1

\* C22: an edit with text that is not empty once trimmed replaces the
\* candidate, transmits the new text and its save persists it and ends the
\* cycle in sent; an edit with text that is empty once trimmed transmits and
\* persists nothing, keeps the candidate and stays in awaiting_action.
C22_EditTransmitsOrStays ==
    [][ /\ TransmitBy("edit")
            => /\ transmitted'[Len(transmitted')].text = current_response'
               /\ Strip(current_response') # <<>>
        /\ SaveAfter("edit") => PersistsCandidate
        /\ EmptyEditStep
            => /\ transmitted' = transmitted
               /\ store' = store
               /\ current_response' = current_response ]_vars

\* The five actions of the decision state machine.
UserActions == {"send", "edit", "regenerate", "alternatives", "skip"}

\* C24: in awaiting_action each of send, edit, regenerate, show-alternatives
\* and skip can be chosen.
C24_FiveActionsOffered ==
    ppc = "menu" => UserActions \subseteq Offered

\* The step is the answer to the generation request of a regenerate.
RegenerateAnswered ==
    ppc = "regenerate" /\ ppc' \notin {"regenerate", "stopped", "crashed"}

\* C25: regenerate makes one generation request with the temperature and the
\* context of the first request of the cycle, makes its answer the candidate,
\* transmits and persists nothing and shows the menu again.
C25_RegenerateReplacesOnly ==
    [][ /\ (ppc = "menu" /\ ppc' = "regenerate")
            => UNCHANGED <<generated, current_response, transmitted, store, outcome>>
        /\ RegenerateAnswered
            => /\ Len(generated') = Len(generated) + 1
               /\ generated'[Len(generated')] = generated[1]
               /\ \E raw \in RawResponses : current_response' = CleanResponse(raw)
               /\ ppc' = "menu"
               /\ UNCHANGED <<transmitted, store, outcome>> ]_vars

\* C25 witness: the menu is shown for a candidate that a regenerate produced.
C25_Witness ==
    /\ ppc = "menu"
    /\ nretry = 1
    /\ Len(generated) = 2

\* The decision cycle of the dequeued message is in the given state.
CycleIs(state) == msg # NoMsg /\ Outcome(msg.telegram_msg_id) = state

\* C26: in auto-reply mode every dequeued message eventually reaches sent
\* (unless the session is stopped first).
C26_AutoReplyReachesSent ==
    (auto_reply /\ CycleIs("open")) ~> (CycleIs("sent") \/ ppc = "stopped")

\* Positions at which the processor is suspended inside a decision cycle: the
\* auto-reply delay, the context query, a generation (with the token refresh or
\* authorization its chat request may need), the menu, a send, a save.
Suspended ==
    {"sleep", "context", "generate", "regenerate", "menu", "auto_send", "save"}

SkipStep ==
    /\ Outcome(msg.telegram_msg_id) = "open"
    /\ outcome'[msg.telegram_msg_id] = "skipped"

\* C30: skip ends the cycle in skipped, transmits nothing, persists nothing
\* and leaves the processor waiting for the next message of the queue.
C30_SkipEndsCycle ==
    [][ SkipStep
            => /\ ppc = "menu" /\ ppc' = "get"
               /\ UNCHANGED <<transmitted, store, message_queue>> ]_vars

\* C30 witness: a message was skipped and the next one was dequeued.
C30_Witness ==
    /\ Len(dequeued) >= 2
    /\ Outcome(dequeued[1]) = "skipped"
    /\ transmitted = <<>>

\* Answers that are neither a success nor 401.
OtherErrors == ChatAnswers \ {"200", "401"}

\* C29: a chat request answered with a status that is neither a success nor
\* 401 ends the call with an error carrying that status: no refresh is started
\* and no further request is made for it.
C29_OtherErrorNotRetried ==
    \A c \in Callers :
        chatlog[c].answer \in OtherErrors
        => /\ chatlog[c].raised = chatlog[c].answer
           /\ task[c].pc = "idle"
           /\ task[c].req = NoReq
           /\ ev[c] = NoCheck

\* C29 witness: a chat request made after a token was issued was answered 500
\* and the call ended with that error.
C29_Witness ==
    \E c \in Callers :
        /\ chatlog[c] = ChatLog("500", "500")
        /\ task[c].pc = "idle"
        /\ issued > 0

\* The temperatures of the requests made so far, in order.
Temperatures == [i \in 1..Len(gm.requests) |-> gm.requests[i].temperature]

\* C28: generate_multiple with count 3 makes three generation requests, at
\* the temperatures 0.7, 0.85 and 1.0 in that order: the requests made so far
\* are the first of these, and all three once the call has returned.
C28_ThreeTemperatures ==
    gm.count = 3
    => /\ Len(Temperatures) <= 3
       /\ Temperatures = SubSeq(<<70, 85, 100>>, 1, Len(Temperatures))
       /\ (gm.pc = "done" => Len(Temperatures) = 3 /\ Len(gm.options) = 3)

\* C28 witness: a call with count 3 on a context longer than the prompt limit
\* has returned its three options.
C28_Witness ==
    /\ gm.pc = "done"
    /\ gm.count = 3
    /\ Len(gm.context) > PromptLimit
    /\ Len(gm.requests) = 3

\* C9: a failure of generation or of sending inside a decision cycle puts the
\* message back in awaiting_action (the menu) with the processor still running.
C9_FailureReturnsToMenu ==
    [][nfail' > nfail => (ppc' = "menu" /\ msg' = msg)]_vars

\* C10: once the processor has stopped or failed, or a cycle has ended in sent,
\* every reply that was transmitted is persisted as an outgoing message.
C10_NoPartialSend ==
    \A i \in 1..Len(transmitted) :
        (ppc \in {"stopped", "crashed"} \/ Outcome(transmitted[i].re) = "sent")
        => ( /\ Len(SessionReplies) >= i
             /\ SessionReplies[i].text = transmitted[i].text )

\* -------------------------------------------------------- completions URL
\* C31: normalising is idempotent: the URL computed from a computed URL is
\* that URL again.
C31_NormalizeIdempotent ==
    Len(api.urls) >= 2 => api.urls[2] = api.urls[1]

\* C32: the computed URL ends in /chat/completions and holds it exactly once.
C32_EndsInCompletionsOnce ==
    Len(api.urls) >= 1 =>
        /\ EndsWith(api.urls[1], ChatCompletions)
        /\ Count(api.urls[1], ChatCompletions) = 1

\* ---------------------------------------------------------- context window
\* When the message of a row was sent: inbound rows carry the date of their
\* event, reply rows the local time of their save.
SentAt(row) ==
    IF row.telegram_msg_id = ReplyMsgId /\ row # EarlierReply
    THEN row.timestamp - utc_offset
    ELSE row.timestamp

\* The rows, the one sent first coming first.
OldestFirst(rows) ==
    [k \in 1..Len(rows) |->
        rows[CHOOSE i \in 1..Len(rows) :
                Cardinality({j \in 1..Len(rows) :
                                \/ SentAt(rows[j]) < SentAt(rows[i])
                                \/ (SentAt(rows[j]) = SentAt(rows[i]) /\ j <= i)}) = k]]

Turns(rows) == [i \in 1..Len(rows) |-> Turn(Role(rows[i]), rows[i].text)]

\* The context query returns the most recent rows of the table, at most 20,
\* oldest first.
ContextIsMostRecent ==
    (ppc = "context" /\ ppc' = "generate")
    => context' = LastN(OldestFirst(store), ContextLimit)

\* The request just made holds the last rows of the context, at most 15, in
\* their order, and then the text of the message in hand as a user turn.
RequestIsWindow ==
    generated' # generated /\ generated' # <<>>
    => LET conversation == generated'[Len(generated')].conversation
           n == Len(conversation) - 1
       IN  /\ n >= 0
           /\ n <= PromptLimit
           /\ n <= Len(context)
           /\ (Len(context) >= PromptLimit => n = PromptLimit)
           /\ SubSeq(conversation, 1, n) = Turns(SubSeq(context, Len(context) - n + 1, Len(context)))
           /\ conversation[n + 1] = Turn("user", msg.text)

\* C33: generation is given the most recent persisted messages, at most 15 of
\* the 20 fetched, oldest first, then the inbound text as the final turn.
C33_ContextWindow ==
    [][ContextIsMostRecent /\ RequestIsWindow]_vars

\* ------------------------------------------------------ token round trip
\* C34: a record saved to the credential store and read back is the record
\* that was saved, in every field.
C34_TokenRoundTrip ==
    [][(/\ slog.op = "save_token"
        /\ slog'.op = "get_token"
        /\ slog'.who = slog.who)
       => (/\ slog.raised = "none"
           /\ slog'.raised = "none"
           /\ slog'.returned = slog.saved[slog.who])]_vars

\* --------------------------------------------------- one reply per message
\* Transmissions made in answer to the message with this id.
Sends(id) == Cardinality({k \in 1..Len(transmitted) : transmitted[k].re = id})

HoldsEveryReply(rows) ==
    /\ Len(RepliesIn(rows)) = Len(transmitted)
    /\ \A i \in 1..Len(transmitted) : RepliesIn(rows)[i].text = transmitted[i].text

\* C36: a transmitted reply is persisted before the next message is dequeued,
\* and the context fetched for the next generation holds every reply
\* transmitted so far in the session.
C36_RepliesReachContext ==
    [][/\ dequeued' # dequeued => HoldsEveryReply(store)
       /\ (ppc = "context" /\ ppc' = "generate") => HoldsEveryReply(context')]_vars

\* ------------------------------------------------- the inbound message once
\* C37: the request of a generation holds the message being answered once, as
\* its final user turn: the rows its history turns are made of do not include
\* the row of that message.
C37_InboundOnce ==
    [][generated' # generated /\ generated' # <<>>
       => LET conversation == generated'[Len(generated')].conversation
              history == LastN(context, PromptLimit)
          IN  /\ conversation = Append(Turns(history), Turn("user", msg.text))
              /\ \A i \in 1..Len(history) :
                    history[i].telegram_msg_id # msg.telegram_msg_id]_vars

\* ------------------------------------------------ memory and store in step
\* ensure_valid of caller c returns an access token in this step.
Returns(before, after) ==
    /\ after.kind \in EnsureValidKinds
    /\ after.returned # 0
    /\ (before.returned = 0 \/ before.kind # after.kind)

\* C38: whenever ensure_valid returns an access token, the token record in
\* memory equals the record in the credential store.
C38_MemoryEqualsStore ==
    [][\A c \in Callers : Returns(ev[c], ev'[c]) => mem' = db']_vars

\* ------------------------------------------------- refresh keeps refresh
\* C39: a refresh answered 200 for a record with a refresh token leaves a
\* record with a refresh token, in memory and in the write to the store, also
\* when the response carries no refresh_token.
C39_RefreshKeepsRefreshToken ==
    [][\A c \in Callers :
          (/\ task[c].pc = "refresh_wait"
           /\ task'[c].pc = "save"
           /\ task[c].req.refresh_token # NoRefresh)
          => (/\ mem'.refresh_token # NoRefresh
              /\ task'[c].req.token.refresh_token # NoRefresh)]_vars

\* --------------------------------------------- no reply to the own reply
\* Messages the start action put on the queue (their ids are ids of the
\* stored history).
StartEnqueued == Cardinality({i \in 1..Len(enqueued) : enqueued[i] <= HistoryLen})

\* C40: no message is enqueued for an event marked outgoing: what is enqueued
\* is the one message of the start action, if any, and one message per
\* inbound event, each once; so in auto-reply mode the transmissions never
\* outnumber the inbound messages received plus the message of the start
\* action.
C40_NoReplyToOwnReply ==
    /\ StartEnqueued <= 1
    /\ Len(enqueued) + (IF lpc = "put" THEN 1 ELSE 0) = StartEnqueued + nevents
    /\ \A i, j \in 1..Len(enqueued) : enqueued[i] = enqueued[j] => i = j
    /\ auto_reply => Len(transmitted) <= nevents + StartEnqueued

\* C40 witness: in auto-reply mode the message of the start action and an
\* inbound message were both answered, and the listener is idle.
C40_Witness ==
    /\ auto_reply
    /\ StartEnqueued = 1
    /\ nevents = 1
    /\ Len(transmitted) = 2
    /\ lpc = "idle"
    /\ message_queue = <<>>
====
